---- MODULE Spec2Model ----
(***************************************************************************)
(* Component registry of the UUF template application (lib/utils.js):      *)
(* discovery of pages and divs, inheritance chaining, ordering, the        *)
(* lookup table and its cache, the raw configuration cache, the furthest   *)
(* child resolver, and the div router (lib/divs-router.js).                *)
(***************************************************************************)
EXTENDS Integers, Sequences, FiniteSets, TLC

VARIABLES
    fs,            \* component collections and layouts on disk
    confFiles,     \* the UUF and the application configuration file on disk
    confCache,     \* application.get/put: cached configurations and their LMD
    lookupCache,   \* application.get/put: cached lookup table
    data,          \* last value returned by getUiComponentsData
    ret,           \* outcome of the last call
    engine,        \* how Array.prototype.sort of the script engine orders ties
    calls          \* the calls in progress: position and locals of each request

vars == <<fs, confFiles, confCache, lookupCache, data, ret, engine, calls>>

(***************************************************************************)
(* JavaScript values of a parsed JSON document.                            *)
(***************************************************************************)
undefined == [t |-> "undefined"]
null == [t |-> "null"]
EmptyObject == [k \in {} |-> undefined]
Str(s) == [t |-> "string", s |-> s]
Num(n) == [t |-> "number", n |-> n]
Bool(b) == [t |-> "boolean", b |-> b]
\* an array: its elements and its named properties
Arr(a) == [t |-> "array", a |-> a, o |-> EmptyObject]
Obj(o) == [t |-> "object", o |-> o]

\* the element of a singleton; The({e : x \in {v}}) is e with x the value of v
The(S) == CHOOSE x \in S : TRUE

\* o[k] of an object
Get(o, k) == IF k \in DOMAIN o THEN o[k] ELSE undefined

\* JavaScript truthiness, as tested by if (v), !v and v || w
Truthy(v) ==
    CASE v.t = "undefined" -> FALSE
      [] v.t = "null" -> FALSE
      [] v.t = "string" -> v.s # ""
      [] v.t = "number" -> v.n # 0
      [] v.t = "boolean" -> v.b
      [] OTHER -> TRUE

(***************************************************************************)
(* Strings are read character by character where the code does so.         *)
(***************************************************************************)
Chars(s) ==
    CASE s = "a.x" -> <<"a", ".", "x">>
      [] s = "b.y" -> <<"b", ".", "y">>
      [] s = "c.z" -> <<"c", ".", "z">>
      [] s = "d." -> <<"d", ".">>
      [] s = "x" -> <<"x">>
      [] s = "y" -> <<"y">>
      [] s = "z" -> <<"z">>
      [] s \in {"0", "1", "2", "3", "4", "5", "6", "7", "8", "9"} -> <<s>>
      [] s = "yes" -> <<"y", "e", "s">>
      [] s = "no" -> <<"n", "o">>
      [] s = "true" -> <<"t", "r", "u", "e">>
      [] s = "TRUE" -> <<"T", "R", "U", "E">>
      [] s = "main.hbs" -> <<"m", "a", "i", "n", ".", "h", "b", "s">>
      [] s = "main" -> <<"m", "a", "i", "n">>
      [] s = "hbs" -> <<"h", "b", "s">>
      [] s = "notes.txt" -> <<"n", "o", "t", "e", "s", ".", "t", "x", "t">>
      [] s = "notes" -> <<"n", "o", "t", "e", "s">>
      [] s = "txt" -> <<"t", "x", "t">>
      [] s = "/" -> <<"/">>
      [] s = "x.hbs" -> <<"x", ".", "h", "b", "s">>
      [] s = "/x.hbs" -> <<"/", "x", ".", "h", "b", "s">>
      [] s = "" -> <<>>

Strings ==
    {"a.x", "b.y", "c.z", "d.", "x", "y", "z", "0", "1", "2", "3", "4", "5", "6",
     "7", "8", "9", "yes", "no", "true",
     "TRUE", "main.hbs", "main", "hbs", "notes.txt", "notes", "txt", "",
     "/", "x.hbs", "/x.hbs"}

\* the string with the given characters
FromChars(cs) == CHOOSE s \in Strings : Chars(s) = cs

Digits == <<"0", "1", "2", "3", "4", "5", "6", "7", "8", "9">>

DigitValue(c) ==
    IF \E d \in 1..10 : Digits[d] = c
    THEN (CHOOSE d \in 1..10 : Digits[d] = c) - 1
    ELSE -1

\* String(n) of a number below ten
String(n) == FromChars(<<Digits[n + 1]>>)

\* collation rank of a character
CharRank(c) ==
    CASE c = "." -> 0
      [] DigitValue(c) >= 0 -> 1 + DigitValue(c)
      [] c = "a" -> 11
      [] c = "b" -> 12
      [] c = "c" -> 13
      [] c = "d" -> 14
      [] c = "e" -> 15
      [] c = "n" -> 16
      [] c = "o" -> 17
      [] c = "r" -> 18
      [] c = "s" -> 19
      [] c = "t" -> 20
      [] c = "u" -> 21
      [] c = "x" -> 22
      [] c = "y" -> 23
      [] c = "z" -> 24
      [] OTHER -> 30

RECURSIVE CompareChars(_, _)
CompareChars(a, b) ==
    IF a = <<>> /\ b = <<>> THEN 0
    ELSE IF a = <<>> THEN -1
    ELSE IF b = <<>> THEN 1
    ELSE IF CharRank(Head(a)) < CharRank(Head(b)) THEN -1
    ELSE IF CharRank(Head(a)) > CharRank(Head(b)) THEN 1
    ELSE CompareChars(Tail(a), Tail(b))

\* String.prototype.localeCompare
localeCompare(a, b) == CompareChars(Chars(a), Chars(b))

\* String.prototype.lastIndexOf, 0-based, -1 when absent
RECURSIVE LastIndexIn(_, _, _)
LastIndexIn(cs, c, i) ==
    IF i = 0 THEN -1
    ELSE IF cs[i] = c THEN i - 1
    ELSE LastIndexIn(cs, c, i - 1)

lastIndexOf(s, c) == LastIndexIn(Chars(s), c, Len(Chars(s)))

\* String.prototype.substr(from) and substr(from, length)
substr(s, from) == FromChars(SubSeq(Chars(s), from + 1, Len(Chars(s))))

substrLength(s, from, length) == FromChars(SubSeq(Chars(s), from + 1, from + length))


NaN == [nan |-> TRUE, n |-> 0]

\* parseInt: the leading decimal digits of the argument's string form
RECURSIVE ParseDigits(_, _, _)
ParseDigits(cs, acc, seen) ==
    IF cs = <<>> \/ DigitValue(Head(cs)) < 0
    THEN IF seen THEN [nan |-> FALSE, n |-> acc] ELSE NaN
    ELSE ParseDigits(Tail(cs), acc * 10 + DigitValue(Head(cs)), TRUE)

RECURSIVE parseInt(_)
parseInt(v) ==
    CASE v.t = "number" -> [nan |-> FALSE, n |-> v.n]
      [] v.t = "string" -> ParseDigits(Chars(v.s), 0, FALSE)
      [] v.t = "array" -> IF v.a = <<>> THEN NaN ELSE parseInt(Head(v.a))
      [] OTHER -> NaN

\* String.prototype.toLowerCase
\* s.charAt(i), and a + b of two strings
charAt(s, i) == IF i < Len(Chars(s)) THEN Chars(s)[i + 1] ELSE ""

Concat(a, b) == FromChars(Chars(a) \o Chars(b))

LowerChar(c) ==
    CASE c = "T" -> "t" [] c = "R" -> "r" [] c = "U" -> "u" [] c = "E" -> "e"
      [] OTHER -> c

toLowerCase(s) == FromChars([i \in 1..Len(Chars(s)) |-> LowerChar(Chars(s)[i])])

\* utils.parseBoolean
parseBoolean(obj, defaultValue) ==
    CASE obj.t = "boolean" -> obj.b
      [] obj.t = "number" -> obj.n > 0
      [] obj.t = "string" ->
            LET objLowerCased == toLowerCase(obj.s)
            IN  objLowerCased = "true" \/ objLowerCased = "yes"
      [] OTHER ->
            IF obj.t \in {"null", "undefined"}
            THEN IF defaultValue.t \in {"null", "undefined"} THEN FALSE
                 ELSE defaultValue.b
            ELSE TRUE

(***************************************************************************)
(* Property names of definitions and configurations (lib/constants.js).    *)
(***************************************************************************)
UI_COMPONENT_DEFINITION_VERSION == "version"
UI_COMPONENT_DEFINITION_INDEX == "index"
UI_COMPONENT_DEFINITION_EXTENDS == "extends"
UI_COMPONENT_DEFINITION_DISABLED == "disabled"
PAGE_DEFINITION_URI == "uri"
PAGE_DEFINITION_LAYOUT == "layout"
DIV_DEFINITION_PUSHED_URIS == "pushedUris"
APP_CONF_CACHE_ENABLED == "cachingEnabled"

(***************************************************************************)
(* extend(child, parent): a parent's array replaces the child's property,  *)
(* a parent's object is merged into it recursively, any other value is     *)
(* copied only if the child has no own property of that name.              *)
(***************************************************************************)
HoldsProperties(v) == v.t \in {"object", "array"}

RECURSIVE extend(_, _)
extend(child, parent) ==
    The({
      LET props == IF p.t = "object" THEN DOMAIN p.o ELSE {}
      IN  IF ~HoldsProperties(c)
          THEN c  \* an assignment to a property of a primitive is dropped
          ELSE [c EXCEPT !.o =
                  [k \in (DOMAIN c.o) \cup props |->
                      IF k \notin props THEN c.o[k]
                      ELSE LET propertyValue == p.o[k]
                           IN  IF propertyValue.t = "array" THEN propertyValue
                               ELSE IF propertyValue.t \in {"object", "null"}
                                    THEN extend(Get(c.o, k), propertyValue)
                               ELSE IF k \notin DOMAIN c.o THEN propertyValue
                               ELSE c.o[k]]]
      : c \in {IF Truthy(child) THEN child ELSE Obj(EmptyObject)}, p \in {parent}})

(***************************************************************************)
(* UI components.  A component is known by its position in the list of     *)
(* discovered components of its type; parents and children hold such       *)
(* positions.                                                              *)
(***************************************************************************)
UIComponent(fullName, shortName, type, definition, col) ==
    [fullName |-> fullName, shortName |-> shortName, type |-> type,
     path |-> <<col, type, fullName>>, definition |-> definition,
     parents |-> <<>>, children |-> <<>>, disabled |-> FALSE, index |-> -1]

\* Array.prototype.indexOf with strict equality; a children list holds
\* component objects
RECURSIVE IndexOfFrom(_, _, _)
IndexOfFrom(array, searched, i) ==
    IF i > Len(array) THEN -1
    ELSE IF array[i] = searched THEN i - 1
    ELSE IndexOfFrom(array, searched, i + 1)

indexOf(array, searched) == IndexOfFrom(array, searched, 1)

\* the objects held by a children list, as JavaScript values
ChildObjects(children) == [i \in 1..Len(children) |-> [t |-> "component", id |-> children[i]]]

DefaultIndex == 1000000

IndexValue(component) ==
    LET tmpIndex == parseInt(Get(component.definition, UI_COMPONENT_DEFINITION_INDEX))
    IN  IF tmpIndex.nan THEN DefaultIndex ELSE tmpIndex.n

compareRawUiComponents(a, b) ==
    The({
      IF aIndex = bIndex
      THEN IF aIndex = DefaultIndex
           THEN localeCompare(a.fullName, b.fullName)
           ELSE IF indexOf(ChildObjects(a.children), Str(b.fullName)) >= 0 THEN 1
           ELSE IF indexOf(ChildObjects(b.children), Str(a.fullName)) >= 0 THEN -1
           ELSE localeCompare(a.fullName, b.fullName)
      ELSE IF aIndex > bIndex THEN 1 ELSE -1
      : aIndex \in {IndexValue(a)}, bIndex \in {IndexValue(b)}})

(***************************************************************************)
(* Discovery: populateComponentCollections over one collection.            *)
(***************************************************************************)
Failure(kind, info) == [status |-> "error", error |-> kind, info |-> info]

RECURSIVE populateComponentCollections(_, _, _, _, _)
populateComponentCollections(dirs, col, componentType, i, found) ==
    The({
      IF st.status # "ok" \/ i > Len(dirs) THEN st
      ELSE IF ~dirs[i].isDirectory
      THEN populateComponentCollections(dirs, col, componentType, i + 1, st)
      ELSE
        LET componentFullName == dirs[i].name
            componentShortName ==
                substr(componentFullName, lastIndexOf(componentFullName, ".") + 1)
        IN  IF componentShortName = ""
            THEN Failure("InvalidComponentName",
                         [type |-> componentType, name |-> componentFullName])
            ELSE IF ~dirs[i].hasDefinition
            THEN Failure("MissingDefinitionFile",
                         [type |-> componentType, name |-> componentFullName])
            ELSE
              LET uiComponent == UIComponent(componentFullName, componentShortName,
                                             componentType, dirs[i].definition, col)
              IN  populateComponentCollections(dirs, col, componentType, i + 1,
                      [st EXCEPT !.list = Append(@, uiComponent),
                                 !.map = (componentFullName :> (Len(st.list) + 1)) @@ @])
      : st \in {found}})

Subdir(collection, componentType) ==
    IF componentType = "div" THEN collection.divs ELSE collection.pages

RECURSIVE Discover(_, _, _, _)
Discover(collections, componentType, i, found) ==
    The({
      IF st.status # "ok" \/ i > Len(collections) THEN st
      ELSE Discover(collections, componentType, i + 1,
              populateComponentCollections(Subdir(collections[i], componentType), i,
                                           componentType, 1, st))
      : st \in {found}})

(***************************************************************************)
(* Inheritance chaining of one component: the while loop over its parents. *)
(* A walk that has pushed as many parents as the map has entries and still *)
(* finds a parent is on a cycle and never ends.                            *)
(***************************************************************************)
RECURSIVE ChainParents(_, _, _, _)
ChainParents(chained, componentType, i, parentName) ==
    The({
      IF ~Truthy(parentComponentFullName) THEN st
      ELSE IF ~(parentComponentFullName.t = "string"
                /\ parentComponentFullName.s \in DOMAIN st.map)
      THEN Failure("MissingParentComponent",
                   [type |-> componentType, parent |-> parentComponentFullName,
                    component |-> st.list[i].fullName,
                    parents |-> st.list[i].parents])
      ELSE IF Len(st.list[i].parents) >= Cardinality(DOMAIN st.map)
      THEN [status |-> "hang"]
      ELSE
        LET p == st.map[parentComponentFullName.s]
            pushed == [st.list EXCEPT ![p].children = Append(@, i)]
        IN  ChainParents(
                [st EXCEPT !.list =
                    [pushed EXCEPT
                        ![i].parents = Append(@, p),
                        ![i].definition = extend(Obj(@), Obj(pushed[p].definition)).o]],
                componentType, i,
                \* the parent's definition after the merge (the component's
                \* own when it extends itself)
                Get(IF p = i THEN extend(Obj(st.list[i].definition),
                                         Obj(st.list[i].definition)).o
                    ELSE st.list[p].definition,
                    UI_COMPONENT_DEFINITION_EXTENDS))
      : st \in {chained}, parentComponentFullName \in {parentName}})

RECURSIVE ChainAll(_, _, _)
ChainAll(chained, componentType, i) ==
    The({
      IF st.status # "ok" \/ i > Len(st.list) THEN st
      ELSE ChainAll(ChainParents(st, componentType, i,
                        Get(st.list[i].definition, UI_COMPONENT_DEFINITION_EXTENDS)),
                    componentType, i + 1)
      : st \in {chained}})

(***************************************************************************)
(* Array.prototype.sort with compareRawUiComponents.  Where the comparator *)
(* answers 0 the engine may leave either element first (tie).              *)
(***************************************************************************)
RECURSIVE Insert(_, _, _, _)
Insert(array, id, list, tie) ==
    The({
      IF sorted = <<>> THEN <<id>>
      ELSE The({
             IF cmp < 0 \/ (cmp = 0 /\ tie = "stable")
             THEN Append(sorted, id)
             ELSE Append(Insert(SubSeq(sorted, 1, Len(sorted) - 1), id, list, tie),
                         sorted[Len(sorted)])
             : cmp \in {compareRawUiComponents(list[sorted[Len(sorted)]], list[id])}})
      : sorted \in {array}})

RECURSIVE SortFrom(_, _, _, _)
SortFrom(array, list, i, tie) ==
    The({
      IF i > Len(list) THEN sorted
      ELSE SortFrom(Insert(sorted, i, list, tie), list, i + 1, tie)
      : sorted \in {array}})

Sort(list, tie) == SortFrom(<<>>, list, 1, tie)

Ties == {"stable", "reversed"}

(***************************************************************************)
(* getUiComponentsData: discovery over all collections, inheritance        *)
(* chaining, sorting.  list holds the components in discovery order, array *)
(* their positions in sorted order, map the position registered per name.  *)
(***************************************************************************)
getUiComponentsData(componentType, files, tie) ==
    The({
      IF chained.status # "ok" THEN chained
      ELSE [status |-> "ok", type |-> componentType, map |-> chained.map,
            list |-> chained.list, array |-> Sort(chained.list, tie)]
      : chained \in
          {ChainAll(Discover(files.collections, componentType, 1,
                             [status |-> "ok", map |-> EmptyObject, list |-> <<>>]),
                    componentType, 1)}})

(***************************************************************************)
(* getFurthestChild.  equals and compareTo are methods of UIComponent      *)
(* (lib/models.js): equals compares full names, compareTo is the ordering  *)
(* of the components.                                                      *)
(***************************************************************************)
equals(a, b) == a.fullName = b.fullName

compareTo(a, b) == compareRawUiComponents(a, b)

\* the first position (from 0) of the parent in the child's parents, or -1
RECURSIVE DistanceFrom(_, _, _, _)
DistanceFrom(list, parentUiComponent, currentChildParents, j) ==
    IF j > Len(currentChildParents) THEN -1
    ELSE IF equals(list[parentUiComponent], list[currentChildParents[j]]) THEN j - 1
    ELSE DistanceFrom(list, parentUiComponent, currentChildParents, j + 1)

\* the loop over the children; furthestChild 0 stands for null
RECURSIVE FurthestFrom(_, _, _, _, _)
FurthestFrom(list, parentUiComponent, i, furthestChild, furthestChildDistance) ==
    LET childrenUiComponents == list[parentUiComponent].children
    IN  IF i > Len(childrenUiComponents) THEN furthestChild
        ELSE
          The({
            IF furthestChildDistance < currentChildDistance
            THEN FurthestFrom(list, parentUiComponent, i + 1, currentChild,
                              currentChildDistance)
            ELSE IF furthestChildDistance = currentChildDistance
                    /\ furthestChild # 0
                    /\ compareTo(list[currentChild], list[furthestChild]) = 1
            THEN FurthestFrom(list, parentUiComponent, i + 1, currentChild,
                              currentChildDistance)
            ELSE FurthestFrom(list, parentUiComponent, i + 1, furthestChild,
                              furthestChildDistance)
            : currentChild \in {childrenUiComponents[i]},
              currentChildDistance \in
                  {DistanceFrom(list, parentUiComponent,
                                list[childrenUiComponents[i]].parents, 1)}})

\* getFurthestChild giving the first of the children
getFurthestChildFirst(list, parentUiComponent) ==
    IF Len(list[parentUiComponent].children) = 0 THEN parentUiComponent
    ELSE list[parentUiComponent].children[1]

getFurthestChild(list, parentUiComponent) ==
    IF Len(list[parentUiComponent].children) = 0 THEN parentUiComponent
    ELSE FurthestFrom(list, parentUiComponent, 1, 0, -1)

(***************************************************************************)
(* utils.getFileInUiComponent(uiComponent, relativeFilePath).  files gives *)
(* what each component directory holds at a relative path: a regular file  *)
(* or a directory.                                                         *)
(***************************************************************************)
\* new File(path + relativeFilePath): file.isExists() && !file.isDirectory()
IsRegularFile(files, path, relativeFilePath) ==
    /\ path \in DOMAIN files
    /\ relativeFilePath \in DOMAIN files[path]
    /\ files[path][relativeFilePath] = "file"

File(path, relativeFilePath) ==
    [t |-> "file", path |-> path, relativeFilePath |-> relativeFilePath]

\* the loop over the parents of the furthest child
RECURSIVE ParentFileFrom(_, _, _, _, _)
ParentFileFrom(list, files, parentUiComponents, i, relativeFilePath) ==
    IF i > Len(parentUiComponents) THEN null
    ELSE IF IsRegularFile(files, list[parentUiComponents[i]].path, relativeFilePath)
    THEN File(list[parentUiComponents[i]].path, relativeFilePath)
    ELSE ParentFileFrom(list, files, parentUiComponents, i + 1, relativeFilePath)

\* getFileInUiComponent looking in the given component, not its furthest child
getFileInUiComponentOwn(list, files, uiComponent, filePath) ==
    The({
      IF IsRegularFile(files, list[uiComponent].path, relativeFilePath)
      THEN File(list[uiComponent].path, relativeFilePath)
      ELSE ParentFileFrom(list, files, list[uiComponent].parents, 1, relativeFilePath)
      : relativeFilePath \in
          {IF charAt(filePath, 0) # "/" THEN Concat("/", filePath) ELSE filePath}})

getFileInUiComponent(list, files, uiComponent, filePath) ==
    The({
      IF IsRegularFile(files, list[childUiComponent].path, relativeFilePath)
      THEN File(list[childUiComponent].path, relativeFilePath)
      ELSE ParentFileFrom(list, files, list[childUiComponent].parents, 1,
                          relativeFilePath)
      : relativeFilePath \in
          {IF charAt(filePath, 0) # "/" THEN Concat("/", filePath) ELSE filePath},
        childUiComponent \in {getFurthestChild(list, uiComponent)}})

(***************************************************************************)
(* Validation of the merged definition of a page or a div.                 *)
(***************************************************************************)
Validation(success, message) == [success |-> success, message |-> message]

validatePageDefinition(page, layoutsData) ==
    LET pageDefinition == page.definition
        layoutFullName == Get(pageDefinition, PAGE_DEFINITION_LAYOUT)
    IN  IF ~Truthy(Get(pageDefinition, UI_COMPONENT_DEFINITION_VERSION))
        THEN Validation(FALSE, <<"no version", page.fullName, page.parents>>)
        ELSE IF ~Truthy(Get(pageDefinition, PAGE_DEFINITION_URI))
        THEN Validation(FALSE, <<"no URI", page.fullName, page.parents>>)
        ELSE IF ~Truthy(layoutFullName)
        THEN Validation(FALSE, <<"no layout", page.fullName, page.parents>>)
        ELSE IF ~(layoutFullName.t = "string" /\ layoutFullName.s \in DOMAIN layoutsData)
        THEN Validation(FALSE, <<"layout does not exist", page.fullName, layoutFullName>>)
        ELSE Validation(TRUE, <<"valid page definition">>)

validateDivDefinition(div) ==
    LET divDefinition == div.definition
        pushedUris == Get(divDefinition, DIV_DEFINITION_PUSHED_URIS)
    IN  IF ~Truthy(Get(divDefinition, UI_COMPONENT_DEFINITION_VERSION))
        THEN Validation(FALSE, <<"no version", div.fullName, div.parents>>)
        ELSE IF Truthy(pushedUris) /\ pushedUris.t # "array"
        THEN Validation(FALSE, <<"pushed URIs not an array", div.fullName, pushedUris.t>>)
        ELSE Validation(TRUE, <<"valid div definition">>)

(***************************************************************************)
(* getLayoutsData: one layout per regular .hbs file of the layouts         *)
(* directory.                                                              *)
(***************************************************************************)
RECURSIVE LayoutsFrom(_, _, _)
LayoutsFrom(layoutsFiles, i, layouts) ==
    The({
      IF i > Len(layoutsFiles) THEN layoutsData
      ELSE IF layoutsFiles[i].isDirectory
      THEN LayoutsFrom(layoutsFiles, i + 1, layoutsData)
      ELSE
        LET layoutFileName == layoutsFiles[i].name
            index == lastIndexOf(layoutFileName, ".")
        IN  IF substr(layoutFileName, index + 1) # "hbs"
            THEN LayoutsFrom(layoutsFiles, i + 1, layoutsData)
            ELSE LET layoutFullName == substrLength(layoutFileName, 0, index)
                 IN  LayoutsFrom(layoutsFiles, i + 1,
                         (layoutFullName :>
                              [fullName |-> layoutFullName, path |-> layoutFileName])
                         @@ layoutsData)
      : layoutsData \in {layouts}})

getLayoutsData(layoutsFiles) == LayoutsFrom(layoutsFiles, 1, EmptyObject)

(***************************************************************************)
(* The two loops of getLookupTable over the sorted divs and pages.  st     *)
(* holds the component objects (list), the maps being filled and the       *)
(* status of the build.                                                    *)
(***************************************************************************)
\* pushedDivs[uriPattern].push(divFullName) for every pattern of the array
RECURSIVE PushDiv(_, _, _, _)
PushDiv(pushed, uriPatterns, n, divFullName) ==
    The({
      IF n > Len(uriPatterns) THEN pushedDivs
      ELSE LET uriPattern == uriPatterns[n].s
               sofar == IF uriPattern \in DOMAIN pushedDivs
                        THEN pushedDivs[uriPattern] ELSE <<>>
           IN  PushDiv((uriPattern :> Append(sofar, divFullName)) @@ pushedDivs,
                       uriPatterns, n + 1, divFullName)
      : pushedDivs \in {pushed}})

RECURSIVE DivsLoop(_, _, _)
DivsLoop(divsArray, i, table) ==
    The({
      IF st.status # "ok" \/ i >= Len(divsArray) THEN st
      ELSE
        The({
          LET div == indexed.list[id]
              registered == [indexed EXCEPT !.uiComponents =
                                (div.fullName :> <<"div", id>>) @@ @]
              validationData == validateDivDefinition(div)
              uriPatterns == Get(div.definition, DIV_DEFINITION_PUSHED_URIS)
          IN  IF div.disabled THEN DivsLoop(divsArray, i + 1, indexed)
              ELSE IF Len(div.children) # 0 THEN DivsLoop(divsArray, i + 1, registered)
              ELSE IF ~validationData.success
              THEN Failure("InvalidDivDefinition", validationData.message)
              ELSE IF ~Truthy(uriPatterns) THEN DivsLoop(divsArray, i + 1, registered)
              ELSE DivsLoop(divsArray, i + 1,
                            [registered EXCEPT
                                !.pushedDivs = PushDiv(@, uriPatterns.a, 1, div.fullName)])
          : id \in {divsArray[i + 1]},
            indexed \in
              {[st EXCEPT
                  !.list[divsArray[i + 1]].index = i,
                  !.list[divsArray[i + 1]].disabled =
                      parseBoolean(Get(st.list[divsArray[i + 1]].definition,
                                       UI_COMPONENT_DEFINITION_DISABLED), undefined)]}})
      : st \in {table}})

\* the loop over the pages registering a page for its URI whatever page
\* holds the URI already
RECURSIVE PagesLoopOverwriting(_, _, _, _, _)
PagesLoopOverwriting(pagesArray, i, j, layoutsData, table) ==
    The({
      IF st.status # "ok" \/ j >= Len(pagesArray) THEN st
      ELSE
        The({
          LET page == indexed.list[id]
              registered == [indexed EXCEPT !.uiComponents =
                                (page.fullName :> <<"page", id>>) @@ @]
              validationData == validatePageDefinition(page, layoutsData)
              pageUri == Get(page.definition, PAGE_DEFINITION_URI)
          IN  IF page.disabled
              THEN PagesLoopOverwriting(pagesArray, i, j + 1, layoutsData, indexed)
              ELSE IF Len(page.children) # 0
              THEN PagesLoopOverwriting(pagesArray, i, j + 1, layoutsData, registered)
              ELSE IF ~validationData.success
              THEN Failure("InvalidPageDefinition", validationData.message)
              ELSE PagesLoopOverwriting(pagesArray, i, j + 1, layoutsData,
                             [registered EXCEPT
                                 !.uriPagesMap = (pageUri.s :> page.fullName) @@ @])
          : id \in {pagesArray[j + 1]},
            indexed \in
              {[st EXCEPT
                  !.list[pagesArray[j + 1]].index = i + j,
                  !.list[pagesArray[j + 1]].disabled =
                      parseBoolean(Get(st.list[pagesArray[j + 1]].definition,
                                       UI_COMPONENT_DEFINITION_DISABLED), undefined)]}})
      : st \in {table}})

RECURSIVE PagesLoop(_, _, _, _, _)
PagesLoop(pagesArray, i, j, layoutsData, table) ==
    The({
      IF st.status # "ok" \/ j >= Len(pagesArray) THEN st
      ELSE
        The({
          LET page == indexed.list[id]
              registered == [indexed EXCEPT !.uiComponents =
                                (page.fullName :> <<"page", id>>) @@ @]
              validationData == validatePageDefinition(page, layoutsData)
              pageUri == Get(page.definition, PAGE_DEFINITION_URI)
          IN  IF page.disabled THEN PagesLoop(pagesArray, i, j + 1, layoutsData, indexed)
              ELSE IF Len(page.children) # 0
              THEN PagesLoop(pagesArray, i, j + 1, layoutsData, registered)
              ELSE IF ~validationData.success
              THEN Failure("InvalidPageDefinition", validationData.message)
              ELSE IF pageUri.s \in DOMAIN st.uriPagesMap
              THEN Failure("PageUriCollision",
                           <<page.fullName, pageUri.s, st.uriPagesMap[pageUri.s]>>)
              ELSE PagesLoop(pagesArray, i, j + 1, layoutsData,
                             [registered EXCEPT
                                 !.uriPagesMap = (pageUri.s :> page.fullName) @@ @])
          : id \in {pagesArray[j + 1]},
            indexed \in
              {[st EXCEPT
                  !.list[pagesArray[j + 1]].index = i + j,
                  !.list[pagesArray[j + 1]].disabled =
                      parseBoolean(Get(st.list[pagesArray[j + 1]].definition,
                                       UI_COMPONENT_DEFINITION_DISABLED), undefined)]}})
      : st \in {table}})

(***************************************************************************)
(* The build of getLookupTable, from the layouts to the table.  objects    *)
(* holds the component objects that the maps of the table refer to by      *)
(* position.                                                               *)
(***************************************************************************)
BuildLookupTable(files, tie) ==
    The({
      IF divsData.status # "ok" THEN divsData
      ELSE
        The({
          IF divs.status # "ok" THEN divs
          ELSE
            The({
              IF pagesData.status # "ok" THEN pagesData
              ELSE
                The({
                  IF pages.status # "ok" THEN pages
                  ELSE [status |-> "ok",
                        layouts |-> layoutsData,
                        pages |-> pagesData.map,
                        uriPagesMap |-> pages.uriPagesMap,
                        divs |-> divsData.map,
                        pushedDivs |-> divs.pushedDivs,
                        uiComponents |-> pages.uiComponents,
                        objects |-> [div |-> divs.list, page |-> pages.list]]
                  : pages \in
                      {PagesLoop(pagesData.array, Len(divsData.array), 0, layoutsData,
                                 [status |-> "ok", list |-> pagesData.list,
                                  uiComponents |-> divs.uiComponents,
                                  uriPagesMap |-> EmptyObject])}})
              : pagesData \in {getUiComponentsData("page", files, tie)}})
          : divs \in
              {DivsLoop(divsData.array, 0,
                        [status |-> "ok", list |-> divsData.list,
                         uiComponents |-> EmptyObject,
                         pushedDivs |-> EmptyObject])}})
      : layoutsData \in {getLayoutsData(files.layouts)},
        divsData \in {getUiComponentsData("div", files, tie)}})

(***************************************************************************)
(* utils.getLookupTable(configs) against the cached table: the outcome of  *)
(* the call and the cache after it.                                        *)
(***************************************************************************)
\* getLookupTable returning a stored table whatever the flag says
getLookupTableIgnoringFlag(configs, cached, files, tie) ==
    IF cached.status = "ok"
    THEN [outcome |-> "returned", value |-> cached, built |-> FALSE, cache |-> cached]
    ELSE
      The({
        IF built.status = "ok"
        THEN [outcome |-> "returned", value |-> built, built |-> TRUE, cache |-> built]
        ELSE IF built.status = "error"
        THEN [outcome |-> "thrown", value |-> built, built |-> FALSE, cache |-> cached]
        ELSE [outcome |-> "hung", value |-> built, built |-> FALSE, cache |-> cached]
        : built \in {BuildLookupTable(files, tie)}})

\* getLookupTable putting the outcome of the build in the cache before it
\* looks at it
getLookupTableStoringFirst(configs, cached, files, tie) ==
    LET isCachingEnabled == parseBoolean(Get(configs, APP_CONF_CACHE_ENABLED), undefined)
    IN  IF isCachingEnabled /\ cached.status = "ok"
        THEN [outcome |-> "returned", value |-> cached, built |-> FALSE, cache |-> cached]
        ELSE
          The({
            IF built.status = "ok"
            THEN [outcome |-> "returned", value |-> built, built |-> TRUE, cache |-> built]
            ELSE IF built.status = "error"
            THEN [outcome |-> "thrown", value |-> built, built |-> FALSE,
                  cache |-> [status |-> "none"]]
            ELSE [outcome |-> "hung", value |-> built, built |-> FALSE, cache |-> cached]
            : built \in {BuildLookupTable(files, tie)}})

getLookupTable(configs, cached, files, tie) ==
    LET isCachingEnabled == parseBoolean(Get(configs, APP_CONF_CACHE_ENABLED), undefined)
    IN  IF isCachingEnabled /\ cached.status = "ok"
        THEN [outcome |-> "returned", value |-> cached, built |-> FALSE, cache |-> cached]
        ELSE
          The({
            IF built.status = "ok"
            THEN [outcome |-> "returned", value |-> built, built |-> TRUE, cache |-> built]
            ELSE IF built.status = "error"
            THEN [outcome |-> "thrown", value |-> built, built |-> FALSE, cache |-> cached]
            ELSE [outcome |-> "hung", value |-> built, built |-> FALSE, cache |-> cached]
            : built \in {BuildLookupTable(files, tie)}})

(***************************************************************************)
(* utils.getConfigurations and utils.getAppConfigurations against the      *)
(* cache entry of the file: the outcome of the call and the entry after    *)
(* it.  The application configuration is read as text in which the server  *)
(* placeholders are replaced before it is parsed.                          *)
(***************************************************************************)
ServerIp == "10.0.0.1"

\* content.replace(/\$\{server\.ip}/g, ...) and parse(content)
ParseContent(key, content) ==
    IF key = "app"
    THEN [k \in DOMAIN content |->
            IF content[k] = Str("${server.ip}") THEN Str(ServerIp) ELSE content[k]]
    ELSE content

\* getConfigurationsOf reloading also when the timestamps are equal
getConfigurationsOfNotNewer(key, confFile, cache) ==
    IF ~confFile.exists \/ confFile.isDirectory
    THEN [outcome |-> "thrown", value |-> Failure("MissingConfigurationFile", key),
          reloaded |-> FALSE, cache |-> cache]
    ELSE
      LET cachedConf == cache.conf
          cachedConfFileLMD == parseInt(cache.lmd)
          confFileLMD == parseInt(Num(confFile.lmd))
          updateCache ==
              IF Truthy(cachedConf)
              THEN ~cachedConfFileLMD.nan /\ confFileLMD.n >= cachedConfFileLMD.n
              ELSE TRUE
          conf == Obj(ParseContent(key, confFile.content))
      IN  IF updateCache
          THEN [outcome |-> "returned", value |-> conf, reloaded |-> TRUE,
                cache |-> [conf |-> conf, lmd |-> Str(String(confFile.lmd))]]
          ELSE [outcome |-> "returned", value |-> cachedConf, reloaded |-> FALSE,
                cache |-> cache]

getConfigurationsOf(key, confFile, cache) ==
    IF ~confFile.exists \/ confFile.isDirectory
    THEN [outcome |-> "thrown", value |-> Failure("MissingConfigurationFile", key),
          reloaded |-> FALSE, cache |-> cache]
    ELSE
      LET cachedConf == cache.conf
          cachedConfFileLMD == parseInt(cache.lmd)
          confFileLMD == parseInt(Num(confFile.lmd))
          updateCache ==
              IF Truthy(cachedConf)
              THEN ~cachedConfFileLMD.nan /\ confFileLMD.n > cachedConfFileLMD.n
              ELSE TRUE
          conf == Obj(ParseContent(key, confFile.content))
      IN  IF updateCache
          THEN [outcome |-> "returned", value |-> conf, reloaded |-> TRUE,
                cache |-> [conf |-> conf, lmd |-> Str(String(confFile.lmd))]]
          ELSE [outcome |-> "returned", value |-> cachedConf, reloaded |-> FALSE,
                cache |-> cache]

getConfigurations(confFile, cache) == getConfigurationsOf("uuf", confFile, cache)

getAppConfigurations(confFile, cache) == getConfigurationsOf("app", confFile, cache)

(***************************************************************************)
(* route of the divs router: the request URI split at "/", the lookup of   *)
(* the div, and the response.                                              *)
(***************************************************************************)
route(parts, confFile, confCached, tableCached, files, tie) ==
    IF Len(parts) # 4
    THEN [response |-> 400, cache |-> [conf |-> confCached, table |-> tableCached]]
    ELSE
      The({
        IF conf.outcome # "returned"
        THEN [response |-> 500, error |-> conf.value,
              cache |-> [conf |-> confCached, table |-> tableCached]]
        ELSE
          The({
            IF table.outcome = "hung"
            THEN [response |-> 0, cache |-> [conf |-> conf.cache, table |-> table.cache]]
            ELSE IF table.outcome # "returned"
            THEN [response |-> 500, error |-> table.value,
                  cache |-> [conf |-> conf.cache, table |-> table.cache]]
            ELSE IF parts[4] \notin DOMAIN table.value.divs
            THEN [response |-> 404,
                  cache |-> [conf |-> conf.cache, table |-> table.cache]]
            ELSE [response |-> 200,
                  rendered |-> table.value.objects.div[table.value.divs[parts[4]]],
                  cache |-> [conf |-> conf.cache, table |-> table.cache]]
            : table \in {getLookupTable(conf.value.o, tableCached, files, tie)}})
        : conf \in {getAppConfigurations(confFile, confCached)}})


(***************************************************************************)
(* Inputs: component directories, layouts and configuration files as they  *)
(* are on disk.                                                            *)
(***************************************************************************)
ComponentNames == {"a.x", "b.y", "c.z"}
ListingOrder == <<"a.x", "b.y", "c.z", "d.">>

\* the object holding the defined ones of the given properties
Definition(fields) ==
    [k \in {f \in DOMAIN fields : fields[f] # undefined} |-> fields[k]]

With(definition) == [hasDefinition |-> TRUE, definition |-> definition]
NoDefinitionFile == [hasDefinition |-> FALSE, definition |-> EmptyObject]

\* the listing of a directory holding one component directory per name
Listing(contents) ==
    LET Present(n) == n \in DOMAIN contents
        names == SelectSeq(ListingOrder, Present)
    IN  [i \in 1..Len(names) |->
            [name |-> names[i], isDirectory |-> TRUE,
             hasDefinition |-> contents[names[i]].hasDefinition,
             definition |-> contents[names[i]].definition]]

\* every assignment of contents to at most max of the names
Assignments(names, contents, max) ==
    UNION {[S -> contents] : S \in {T \in SUBSET names : Cardinality(T) <= max}}

LayoutFiles ==
    <<[name |-> "main.hbs", isDirectory |-> FALSE],
      [name |-> "notes.txt", isDirectory |-> FALSE],
      [name |-> "x", isDirectory |-> TRUE]>>

Files(divs1, pages1, divs2, pages2) ==
    [collections |-> <<[divs |-> Listing(divs1), pages |-> Listing(pages1)],
                       [divs |-> Listing(divs2), pages |-> Listing(pages2)]>>,
     layouts |-> LayoutFiles,
     files |-> EmptyObject]

ExtendsValues == {undefined} \cup {Str(n) : n \in ComponentNames}
IndexValues == {undefined, Num(5), Num(7)}
ArrayValues == {undefined, Arr(<<>>), Arr(<<Str("/a")>>), Arr(<<Str("/b")>>)}

DivDefinition(version, ext, idx, disabled, pushed) ==
    With(Definition([version |-> version, extends |-> ext, index |-> idx,
                     disabled |-> disabled, pushedUris |-> pushed]))

PageDefinition(version, ext, disabled, uri, layout) ==
    With(Definition([version |-> version, extends |-> ext, disabled |-> disabled,
                     uri |-> uri, layout |-> layout]))

\* components of one type that differ in parent and priority, or in parent
\* and array property
MaxFirst == 3
MaxSecond == 1

OrderDefinitions ==
    {DivDefinition(Str("1.0"), ext, idx, undefined, undefined) :
        ext \in ExtendsValues, idx \in IndexValues}
OverridingDefinitions ==
    {DivDefinition(Str("1.0"), undefined, idx, undefined, undefined) :
        idx \in {undefined, Num(5)}}
MergeDefinitions ==
    {DivDefinition(Str("1.0"), ext, undefined, undefined, pushed) :
        ext \in ExtendsValues, pushed \in ArrayValues}

ResolveInputs(maxFirst, maxSecond) ==
    {Files(first, EmptyObject, second, EmptyObject) :
        first \in Assignments(ComponentNames, OrderDefinitions, maxFirst),
        second \in Assignments(ComponentNames, OverridingDefinitions, maxSecond)}
    \cup
    {Files(first, EmptyObject, EmptyObject, EmptyObject) :
        first \in Assignments(ComponentNames, MergeDefinitions, maxFirst)}

\* divs without parent that differ in their priority: none, one that is
\* not a number, small ones, the default index and one above it
PriorityValues ==
    {undefined, Str("yes"), Num(5), Str("7"), Num(DefaultIndex), Num(DefaultIndex + 1)}

PriorityDefinitions ==
    {DivDefinition(Str("1.0"), undefined, idx, undefined, undefined) :
        idx \in PriorityValues}

OrderInputs(maxFirst) ==
    {Files(first, EmptyObject, EmptyObject, EmptyObject) :
        first \in Assignments(ComponentNames, PriorityDefinitions, maxFirst)}

\* divs that differ in their parent and in what they hold at the field
\* settings: nothing, a scalar, a sequence, or a mapping of scalars and
\* sequences
SettingsValues ==
    {undefined, Bool(FALSE), Str("yes"), Arr(<<Str("/a")>>),
     Obj([k |-> Str("x")]),
     Obj([k |-> Arr(<<Str("/a")>>)]),
     Obj([k |-> Arr(<<Str("/b")>>), j |-> Str("y")])}

NestedDefinitions ==
    {With(Definition([version |-> Str("1.0"), extends |-> ext, settings |-> settings])) :
        ext \in ExtendsValues, settings \in SettingsValues}

MergeInputs(maxFirst) ==
    {Files(first, EmptyObject, EmptyObject, EmptyObject) :
        first \in Assignments(ComponentNames, NestedDefinitions, maxFirst)}

\* divs that differ in their parent, with or without an a.x in a second
\* collection, and what their directories hold at /x.hbs
ChainDefinitions ==
    {DivDefinition(Str("1.0"), ext, undefined, undefined, undefined) :
        ext \in ExtendsValues}

\* divs of one collection that differ in their parent
ChainInputs(maxFirst) ==
    {Files(first, EmptyObject, EmptyObject, EmptyObject) :
        first \in Assignments(ComponentNames, ChainDefinitions, maxFirst)}

HeldAt(paths) ==
    UNION {[held -> [{"/x.hbs"} -> {"file", "directory"}]] : held \in SUBSET paths}

FileInputs(maxFirst) ==
    UNION
      {{[Files(first, EmptyObject, second, EmptyObject) EXCEPT
            !.files = files @@ [p \in {<<2, "div", n>> : n \in DOMAIN second} |->
                                  [r \in {"/x.hbs"} |-> "file"]]] :
          files \in HeldAt({<<1, "div", n>> : n \in DOMAIN first})} :
        first \in Assignments(ComponentNames, ChainDefinitions, maxFirst),
        second \in {EmptyObject,
                    "a.x" :> DivDefinition(Str("1.0"), undefined, undefined, undefined,
                                            undefined)}}

RelativeFilePaths == {"x.hbs", "/x.hbs"}

\* a valid application: div b.y extends the pushed div a.x, one page
BaseDivs ==
    ("a.x" :> DivDefinition(Str("1.0"), undefined, undefined, undefined,
                            Arr(<<Str("/a")>>)))
    @@ ("b.y" :> DivDefinition(undefined, Str("a.x"), undefined, undefined, undefined))
BasePages ==
    ("a.x" :> PageDefinition(Str("1.0"), undefined, undefined, Str("/u1"), Str("main")))

\* divs and pages that differ in what the loops of getLookupTable read
TableDivs ==
    {DivDefinition(Str("1.0"), ext, undefined, disabled, pushed) :
        ext \in {undefined, Str("a.x"), Str("c.z")},
        disabled \in {undefined, Bool(TRUE)},
        pushed \in {undefined, Arr(<<Str("/a")>>), Arr(<<Str("/a"), Str("/a")>>)}}
    \cup {DivDefinition(undefined, undefined, undefined, undefined, undefined),
          DivDefinition(Str("1.0"), undefined, undefined, undefined, Str("x"))}
OverridingDivs ==
    {DivDefinition(Str("1.0"), undefined, undefined, disabled, undefined) :
        disabled \in {undefined, Str("yes")}}
TablePages ==
    {PageDefinition(Str("1.0"), ext, disabled, uri, Str("main")) :
        ext \in {undefined, Str("a.x")},
        disabled \in {undefined, Num(1)},
        uri \in {Str("/u1"), Str("/u2")}}
    \cup {PageDefinition(undefined, undefined, undefined, Str("/u1"), Str("main")),
          PageDefinition(Str("1.0"), undefined, undefined, undefined, Str("main")),
          PageDefinition(Str("1.0"), undefined, undefined, Str("/u1"), undefined),
          PageDefinition(Str("1.0"), undefined, undefined, Str("/u1"), Str("notes"))}
OverridingPages ==
    {PageDefinition(Str("1.0"), undefined, disabled, Str("/u2"), Str("main")) :
        disabled \in {undefined, Bool(TRUE)}}

MaxComponents == 2
MaxOverriding == 1

TableInputs(maxComponents, maxOverriding) ==
    {Files(divs1, BasePages, divs2, EmptyObject) :
        divs1 \in Assignments({"a.x", "b.y"}, TableDivs, maxComponents),
        divs2 \in Assignments({"a.x"}, OverridingDivs, maxOverriding)}
    \cup
    {Files(BaseDivs, pages1, EmptyObject, pages2) :
        pages1 \in Assignments({"a.x", "b.y"}, TablePages, maxComponents),
        pages2 \in Assignments({"a.x"}, OverridingPages, maxOverriding)}

\* filesystems between which the application directory changes: valid ones
\* and one per kind of failure of the build
Plain == DivDefinition(Str("1.0"), undefined, undefined, undefined, undefined)
PageAt(uri) == PageDefinition(Str("1.0"), undefined, undefined, Str(uri), Str("main"))

CacheInputs ==
    {Files(BaseDivs, BasePages, EmptyObject, EmptyObject),
     Files(("c.z" :> DivDefinition(Str("1.0"), undefined, undefined, Bool(TRUE),
                                   undefined)) @@ BaseDivs,
           BasePages, EmptyObject, EmptyObject),
     Files(BaseDivs, ("b.y" :> PageAt("/u2")) @@ BasePages, "a.x" :> Plain, EmptyObject),
     Files(("d." :> Plain) @@ BaseDivs, BasePages, EmptyObject, EmptyObject),
     Files(BaseDivs, ("b.y" :> NoDefinitionFile) @@ BasePages, EmptyObject, EmptyObject),
     Files(("c.z" :> DivDefinition(Str("1.0"), Str("b.y"), undefined, undefined,
                                   undefined)),
           BasePages, EmptyObject, EmptyObject),
     Files(BaseDivs,
           "b.y" :> PageDefinition(undefined, Str("a.x"), undefined, undefined, undefined),
           EmptyObject, EmptyObject),
     Files(BaseDivs,
           "a.x" :> PageDefinition(Str("1.0"), undefined, undefined, undefined,
                                   Str("main")),
           EmptyObject, EmptyObject),
     Files(("c.z" :> DivDefinition(undefined, undefined, undefined, undefined,
                                   undefined)) @@ BaseDivs,
           BasePages, EmptyObject, EmptyObject),
     Files(BaseDivs, ("b.y" :> PageAt("/u1")) @@ BasePages, EmptyObject, EmptyObject),
     Files(BaseDivs, BasePages, EmptyObject, "b.y" :> PageAt("/u1")),
     Files(("c.z" :> DivDefinition(Str("1.0"), Str("c.z"), undefined, undefined,
                                   undefined)) @@ BaseDivs,
           BasePages, EmptyObject, EmptyObject)}

\* configuration documents as written in the files
ConfContents ==
    {[cachingEnabled |-> Bool(TRUE), host |-> Str("${server.ip}")],
     [cachingEnabled |-> Str("no"), host |-> Str("localhost")]}

MaxLmd == 2

ConfFile(content, lmd) ==
    [exists |-> TRUE, isDirectory |-> FALSE, content |-> content, lmd |-> lmd]
NoFile == [exists |-> FALSE, isDirectory |-> FALSE, content |-> EmptyObject, lmd |-> 0]
ADirectory == [exists |-> TRUE, isDirectory |-> TRUE, content |-> EmptyObject, lmd |-> 0]

ConfFileStates ==
    {NoFile, ADirectory}
    \cup {ConfFile(content, lmd) : content \in ConfContents, lmd \in 0..MaxLmd}

ConfKeys == {"uuf", "app"}

\* configs handed to getLookupTable by its callers
Configurations ==
    {EmptyObject} \cup
    {[cachingEnabled |-> v] : v \in {Bool(TRUE), Bool(FALSE), Str("TRUE"), Num(0)}}

\* request URIs split at "/"
RequestUris ==
    {<<"", "app", "div", n>> : n \in ComponentNames} \cup {<<"", "app", "div">>}

NoData == [status |-> "none"]
NoCall == [op |-> "none"]
NoEntry == [conf |-> undefined, lmd |-> undefined]
NoTable == [status |-> "none"]

\* application directories under concurrent requests: those of the cache
\* and those of one div or page a.x, overridden or not
RaceInputs ==
    CacheInputs
    \cup
    {Files(divs1, BasePages, divs2, EmptyObject) :
        divs1 \in Assignments({"a.x"}, TableDivs, MaxOverriding),
        divs2 \in Assignments({"a.x"}, OverridingDivs, MaxOverriding)}
    \cup
    {Files(BaseDivs, pages1, EmptyObject, pages2) :
        pages1 \in Assignments({"a.x"}, TablePages, MaxOverriding),
        pages2 \in Assignments({"a.x"}, OverridingPages, MaxOverriding)}

\* configs of concurrent requests: caching on, and off
RaceConfigurations == {[cachingEnabled |-> Bool(TRUE)], [cachingEnabled |-> Bool(FALSE)]}

\* parents a walk pushes before the model stops following it
MaxWalk == 5

\* concurrent requests served by the application
MaxRequests == 2
Requests == 1..MaxRequests
Idle == [pc |-> "idle"]
NoCalls == [r \in Requests |-> Idle]

(***************************************************************************)
(* getUiComponentsData as the steps of one request: discovery, then for    *)
(* each component of the list the while loop over its parents, one         *)
(* iteration a step, then the sort.  Each step gives the request's next    *)
(* position and locals and, when the call ends, its outcome.               *)
(***************************************************************************)
\* getUiComponentsData leaving the while loop at a parent it has pushed
getUiComponentsDataStepGuarded(call, componentType, files, tie) ==
    LET continue(next) == [call |-> next, outcome |-> "none", value |-> null]
    IN  IF call.pc = "idle"
        THEN The({
               IF found.status # "ok"
               THEN [call |-> Idle, outcome |-> "thrown", value |-> found]
               ELSE continue([pc |-> "for", type |-> componentType, st |-> found, i |-> 1])
               : found \in {Discover(files.collections, componentType, 1,
                                     [status |-> "ok", map |-> EmptyObject,
                                      list |-> <<>>])}})
        ELSE IF call.pc = "for"
        THEN IF call.i > Len(call.st.list)
             THEN [call |-> Idle, outcome |-> "returned",
                   value |-> [status |-> "ok", type |-> call.type, map |-> call.st.map,
                              list |-> call.st.list,
                              array |-> Sort(call.st.list, tie)]]
             ELSE continue([pc |-> "while", type |-> call.type, st |-> call.st,
                            i |-> call.i,
                            parentName |-> Get(call.st.list[call.i].definition,
                                               UI_COMPONENT_DEFINITION_EXTENDS)])
        ELSE
          The({
            IF ~Truthy(parentComponentFullName)
            THEN continue([pc |-> "for", type |-> call.type, st |-> st, i |-> i + 1])
            ELSE IF ~(parentComponentFullName.t = "string"
                      /\ parentComponentFullName.s \in DOMAIN st.map)
            THEN [call |-> Idle, outcome |-> "thrown",
                  value |-> Failure("MissingParentComponent",
                                    [type |-> call.type,
                                     parent |-> parentComponentFullName,
                                     component |-> st.list[i].fullName,
                                     parents |-> st.list[i].parents])]
            ELSE IF \E k \in 1..Len(st.list[i].parents) :
                       st.list[i].parents[k] = st.map[parentComponentFullName.s]
            THEN continue([pc |-> "for", type |-> call.type, st |-> st, i |-> i + 1])
            ELSE
              LET p == st.map[parentComponentFullName.s]
                  pushed == [st.list EXCEPT ![p].children = Append(@, i)]
                  chained ==
                      [pushed EXCEPT
                          ![i].parents = Append(@, p),
                          ![i].definition = extend(Obj(@), Obj(pushed[p].definition)).o]
              IN  continue([pc |-> "while", type |-> call.type,
                            st |-> [st EXCEPT !.list = chained], i |-> i,
                            parentName |-> Get(chained[p].definition,
                                               UI_COMPONENT_DEFINITION_EXTENDS)])
            : st \in {call.st}, i \in {call.i},
              parentComponentFullName \in {call.parentName}})

getUiComponentsDataStep(call, componentType, files, tie) ==
    LET continue(next) == [call |-> next, outcome |-> "none", value |-> null]
    IN  IF call.pc = "idle"
        THEN The({
               IF found.status # "ok"
               THEN [call |-> Idle, outcome |-> "thrown", value |-> found]
               ELSE continue([pc |-> "for", type |-> componentType, st |-> found, i |-> 1])
               : found \in {Discover(files.collections, componentType, 1,
                                     [status |-> "ok", map |-> EmptyObject,
                                      list |-> <<>>])}})
        ELSE IF call.pc = "for"
        THEN IF call.i > Len(call.st.list)
             THEN [call |-> Idle, outcome |-> "returned",
                   value |-> [status |-> "ok", type |-> call.type, map |-> call.st.map,
                              list |-> call.st.list,
                              array |-> Sort(call.st.list, tie)]]
             ELSE continue([pc |-> "while", type |-> call.type, st |-> call.st,
                            i |-> call.i,
                            parentName |-> Get(call.st.list[call.i].definition,
                                               UI_COMPONENT_DEFINITION_EXTENDS)])
        ELSE
          The({
            IF ~Truthy(parentComponentFullName)
            THEN continue([pc |-> "for", type |-> call.type, st |-> st, i |-> i + 1])
            ELSE IF ~(parentComponentFullName.t = "string"
                      /\ parentComponentFullName.s \in DOMAIN st.map)
            THEN [call |-> Idle, outcome |-> "thrown",
                  value |-> Failure("MissingParentComponent",
                                    [type |-> call.type,
                                     parent |-> parentComponentFullName,
                                     component |-> st.list[i].fullName,
                                     parents |-> st.list[i].parents])]
            ELSE
              LET p == st.map[parentComponentFullName.s]
                  pushed == [st.list EXCEPT ![p].children = Append(@, i)]
                  chained ==
                      [pushed EXCEPT
                          ![i].parents = Append(@, p),
                          ![i].definition = extend(Obj(@), Obj(pushed[p].definition)).o]
              IN  continue([pc |-> "while", type |-> call.type,
                            st |-> [st EXCEPT !.list = chained], i |-> i,
                            parentName |-> Get(chained[p].definition,
                                               UI_COMPONENT_DEFINITION_EXTENDS)])
            : st \in {call.st}, i \in {call.i},
              parentComponentFullName \in {call.parentName}})

(***************************************************************************)
(* utils.getLookupTable(configs) as the steps of one request among         *)
(* concurrent ones: the cache is read once (application.get), the table is *)
(* built in locals of the request from the files, and it is stored         *)
(* (application.put) and returned.  Each step gives the request's next     *)
(* position and locals, the cache after it and, when the call ends, its    *)
(* outcome.                                                                *)
(***************************************************************************)
\* getLookupTable storing its table before the pages are registered
getLookupTableStepStoringEarly(call, configs, cached, files, tie) ==
    IF call.pc = "idle"
    THEN IF parseBoolean(Get(configs, APP_CONF_CACHE_ENABLED), undefined)
            /\ cached.status = "ok"
         THEN [call |-> Idle, cache |-> cached,
               outcome |-> "returned", value |-> cached, built |-> FALSE]
         ELSE [call |-> [pc |-> "building", configs |-> configs], cache |-> cached,
               outcome |-> "none", value |-> null, built |-> FALSE]
    ELSE IF call.pc = "building"
    THEN The({
           IF built.status = "ok"
           THEN [call |-> [pc |-> "putting", configs |-> call.configs,
                           lookupTable |-> built],
                 cache |-> [built EXCEPT !.uriPagesMap = EmptyObject],
                 outcome |-> "none", value |-> null, built |-> FALSE]
           ELSE IF built.status = "error"
           THEN [call |-> Idle, cache |-> cached,
                 outcome |-> "thrown", value |-> built, built |-> FALSE]
           ELSE [call |-> call, cache |-> cached,
                 outcome |-> "none", value |-> null, built |-> FALSE]
           : built \in {BuildLookupTable(files, tie)}})
    ELSE [call |-> Idle, cache |-> call.lookupTable,
          outcome |-> "returned", value |-> call.lookupTable, built |-> TRUE]

getLookupTableStep(call, configs, cached, files, tie) ==
    IF call.pc = "idle"
    THEN IF parseBoolean(Get(configs, APP_CONF_CACHE_ENABLED), undefined)
            /\ cached.status = "ok"
         THEN [call |-> Idle, cache |-> cached,
               outcome |-> "returned", value |-> cached, built |-> FALSE]
         ELSE [call |-> [pc |-> "building", configs |-> configs], cache |-> cached,
               outcome |-> "none", value |-> null, built |-> FALSE]
    ELSE IF call.pc = "building"
    THEN The({
           IF built.status = "ok"
           THEN [call |-> [pc |-> "putting", configs |-> call.configs,
                           lookupTable |-> built],
                 cache |-> cached,
                 outcome |-> "none", value |-> null, built |-> FALSE]
           ELSE IF built.status = "error"
           THEN [call |-> Idle, cache |-> cached,
                 outcome |-> "thrown", value |-> built, built |-> FALSE]
           \* the chain of parents never ends: the request stays in the build
           ELSE [call |-> call, cache |-> cached,
                 outcome |-> "none", value |-> null, built |-> FALSE]
           : built \in {BuildLookupTable(files, tie)}})
    ELSE [call |-> Idle, cache |-> call.lookupTable,
          outcome |-> "returned", value |-> call.lookupTable, built |-> TRUE]

(***************************************************************************)
(* utils.getConfigurations and utils.getAppConfigurations as the steps of  *)
(* one request among concurrent ones and writers of the file: the check of *)
(* the file, application.get of the document, application.get of its       *)
(* timestamp, getLastModified of the file, the read of the file,           *)
(* application.put of the document, and application.put of the timestamp   *)
(* that getLastModified gives at that moment.                              *)
(***************************************************************************)
getConfigurationsStep(call, key, confFile, cache) ==
    LET continue(next) ==
            [call |-> next, cache |-> cache,
             outcome |-> "none", value |-> null, reloaded |-> FALSE]
        missing ==
            [call |-> Idle, cache |-> cache, outcome |-> "thrown",
             value |-> Failure("MissingConfigurationFile", key), reloaded |-> FALSE]
    IN  IF call.pc = "idle"
        THEN IF ~confFile.exists \/ confFile.isDirectory
             THEN missing
             ELSE continue([pc |-> "getConf", key |-> key])
        ELSE IF call.pc = "getConf"
        THEN IF Truthy(cache.conf)
             THEN continue([pc |-> "getLmd", key |-> key, cachedConf |-> cache.conf])
             ELSE continue([pc |-> "load", key |-> key])
        ELSE IF call.pc = "getLmd"
        THEN continue([pc |-> "getFileLmd", key |-> key, cachedConf |-> call.cachedConf,
                       cachedConfFileLMD |-> parseInt(cache.lmd)])
        ELSE IF call.pc = "getFileLmd"
        THEN LET confFileLMD == parseInt(Num(confFile.lmd))
             IN  IF ~call.cachedConfFileLMD.nan
                    /\ confFileLMD.n > call.cachedConfFileLMD.n
                 THEN continue([pc |-> "load", key |-> key])
                 ELSE [call |-> Idle, cache |-> cache, outcome |-> "returned",
                       value |-> call.cachedConf, reloaded |-> FALSE]
        ELSE IF call.pc = "load"
        THEN IF ~confFile.exists \/ confFile.isDirectory
             THEN missing
             ELSE continue([pc |-> "putConf", key |-> key,
                            conf |-> Obj(ParseContent(key, confFile.content))])
        ELSE IF call.pc = "putConf"
        THEN [call |-> [pc |-> "putLmd", key |-> key, conf |-> call.conf],
              cache |-> [cache EXCEPT !.conf = call.conf],
              outcome |-> "none", value |-> null, reloaded |-> FALSE]
        ELSE [call |-> Idle,
              cache |-> [cache EXCEPT !.lmd = Str(String(confFile.lmd))],
              outcome |-> "returned", value |-> call.conf, reloaded |-> TRUE]

(***************************************************************************)
(* The operations.                                                         *)
(***************************************************************************)
GetUiComponentsData(componentType, tie) ==
    /\ data' = getUiComponentsData(componentType, fs, tie)
    /\ ret' = [op |-> "getUiComponentsData", type |-> componentType]
    /\ UNCHANGED <<fs, confFiles, confCache, lookupCache, engine, calls>>

GetFurthestChild(parentUiComponent) ==
    /\ data.status = "ok"
    /\ parentUiComponent \in 1..Len(data.list)
    /\ ret' = [op |-> "getFurthestChild", of |-> parentUiComponent,
               value |-> getFurthestChild(data.list, parentUiComponent)]
    /\ UNCHANGED <<fs, confFiles, confCache, lookupCache, data, engine, calls>>

GetFileInUiComponent(uiComponent, relativeFilePath) ==
    /\ data.status = "ok"
    /\ uiComponent \in 1..Len(data.list)
    /\ ret' = [op |-> "getFileInUiComponent", of |-> uiComponent,
               relativeFilePath |-> relativeFilePath,
               value |-> getFileInUiComponent(data.list, fs.files, uiComponent,
                                              relativeFilePath)]
    /\ UNCHANGED <<fs, confFiles, confCache, lookupCache, data, engine, calls>>

GetLookupTable(configs, tie) ==
    \E call \in {getLookupTable(configs, lookupCache, fs, tie)} :
        /\ lookupCache' = call.cache
        /\ ret' = [op |-> "getLookupTable", configs |-> configs,
                   outcome |-> call.outcome, value |-> call.value,
                   built |-> call.built]
        /\ UNCHANGED <<fs, confFiles, confCache, data, engine, calls>>

Route(parts, tie) ==
    \E call \in {route(parts, confFiles["app"], confCache["app"], lookupCache, fs, tie)} :
        /\ confCache' = [confCache EXCEPT !["app"] = call.cache.conf]
        /\ lookupCache' = call.cache.table
        /\ ret' = [op |-> "route", parts |-> parts, response |-> call.response,
                   rendered |-> IF call.response = 200 THEN call.rendered ELSE null]
        /\ UNCHANGED <<fs, confFiles, data, engine, calls>>

GetConfigurations ==
    \E call \in {getConfigurations(confFiles["uuf"], confCache["uuf"])} :
        /\ confCache' = [confCache EXCEPT !["uuf"] = call.cache]
        /\ ret' = [op |-> "getConfigurations", outcome |-> call.outcome,
                   value |-> call.value, reloaded |-> call.reloaded]
        /\ UNCHANGED <<fs, confFiles, lookupCache, data, engine, calls>>

GetAppConfigurations ==
    \E call \in {getAppConfigurations(confFiles["app"], confCache["app"])} :
        /\ confCache' = [confCache EXCEPT !["app"] = call.cache]
        /\ ret' = [op |-> "getAppConfigurations", outcome |-> call.outcome,
                   value |-> call.value, reloaded |-> call.reloaded]
        /\ UNCHANGED <<fs, confFiles, lookupCache, data, engine, calls>>

\* one step of request r in getUiComponentsData(componentType); the list of
\* parents of a component grows up to MaxWalk
GetUiComponentsDataStep(r, componentType) ==
    /\ IF calls[r].pc = "while"
       THEN Len(calls[r].st.list[calls[r].i].parents) < MaxWalk
       ELSE TRUE
    /\ \E step \in {getUiComponentsDataStep(calls[r], componentType, fs, engine)} :
          /\ calls' = [calls EXCEPT ![r] = step.call]
          /\ data' = IF step.outcome = "none" THEN data ELSE step.value
          /\ ret' = IF step.outcome = "none" THEN ret
                    ELSE [op |-> "getUiComponentsData", type |-> componentType]
    /\ UNCHANGED <<fs, confFiles, confCache, lookupCache, engine>>

\* one step of request r in utils.getLookupTable(configs)
GetLookupTableStep(r, configs) ==
    /\ IF calls[r].pc = "idle" THEN TRUE ELSE calls[r].configs = configs
    /\ \E step \in {getLookupTableStep(calls[r], configs, lookupCache, fs, engine)} :
          /\ calls' = [calls EXCEPT ![r] = step.call]
          /\ lookupCache' = step.cache
          /\ ret' = IF step.outcome = "none" THEN ret
                    ELSE [op |-> "getLookupTable", request |-> r, configs |-> configs,
                          outcome |-> step.outcome, value |-> step.value,
                          built |-> step.built]
    /\ UNCHANGED <<fs, confFiles, confCache, data, engine>>

\* one step of request r in utils.getConfigurations (key "uuf") or in
\* utils.getAppConfigurations (key "app")
GetConfigurationsStep(r, key) ==
    /\ IF calls[r].pc = "idle" THEN TRUE ELSE calls[r].key = key
    /\ \E step \in {getConfigurationsStep(calls[r], key, confFiles[key], confCache[key])} :
          /\ calls' = [calls EXCEPT ![r] = step.call]
          /\ confCache' = [confCache EXCEPT ![key] = step.cache]
          /\ ret' = IF step.outcome = "none" THEN ret
                    ELSE [op |-> IF key = "uuf" THEN "getConfigurations"
                                 ELSE "getAppConfigurations",
                          request |-> r, outcome |-> step.outcome,
                          value |-> step.value, reloaded |-> step.reloaded]
    /\ UNCHANGED <<fs, confFiles, lookupCache, data, engine>>

\* the environment: a configuration file is saved with new content, at a
\* later time than its last modification
ModifyConfFile(key) ==
    /\ confFiles[key].exists /\ ~confFiles[key].isDirectory
    /\ confFiles[key].lmd < MaxLmd
    /\ \E content \in ConfContents \ {confFiles[key].content} :
          confFiles' = [confFiles EXCEPT ![key] = ConfFile(content, confFiles[key].lmd + 1)]
    /\ UNCHANGED <<fs, confCache, lookupCache, data, ret, engine, calls>>

\* the environment: the application directory is redeployed
ChangeFiles ==
    /\ fs' \in CacheInputs \ {fs}
    /\ ret' = [op |-> "changeFiles"]
    /\ UNCHANGED <<confFiles, confCache, lookupCache, data, engine, calls>>

\* the environment: a configuration file is written, replaced or removed
WriteConfFile(key) ==
    /\ confFiles' \in {[confFiles EXCEPT ![key] = f] : f \in ConfFileStates \ {confFiles[key]}}
    /\ ret' = [op |-> "writeConfFile"]
    /\ UNCHANGED <<fs, confCache, lookupCache, data, engine, calls>>

(***************************************************************************)
(* Spec: the lookup table cache and the divs router while the application  *)
(* directory changes.                                                      *)
(***************************************************************************)
Init ==
    /\ fs \in CacheInputs
    /\ confFiles \in {[uuf |-> NoFile, app |-> ConfFile(content, 0)] :
                        content \in ConfContents}
    /\ confCache = [k \in ConfKeys |-> NoEntry]
    /\ lookupCache = NoTable
    /\ data = NoData
    /\ ret = NoCall
    /\ engine \in Ties
    /\ calls = NoCalls

Next ==
    \/ \E configs \in Configurations : GetLookupTable(configs, engine)
    \/ \E parts \in RequestUris : Route(parts, engine)
    \/ ChangeFiles

Spec == Init /\ [][Next]_vars

(***************************************************************************)
(* SpecTable: the lookup tables of applications that differ in their divs  *)
(* and pages.                                                              *)
(***************************************************************************)
InitTable ==
    /\ fs \in TableInputs(MaxComponents, MaxOverriding)
    /\ confFiles = [uuf |-> NoFile,
                    app |-> ConfFile([cachingEnabled |-> Bool(TRUE),
                                      host |-> Str("localhost")], 0)]
    /\ confCache = [k \in ConfKeys |-> NoEntry]
    /\ lookupCache = NoTable
    /\ data = NoData
    /\ ret = NoCall
    /\ engine \in Ties
    /\ calls = NoCalls

NextTable ==
    \/ GetLookupTable(EmptyObject, engine)
    \/ \E parts \in RequestUris : Route(parts, engine)

SpecTable == InitTable /\ [][NextTable]_vars

(***************************************************************************)
(* SpecResolve: discovery, inheritance chaining and ordering of the        *)
(* components of one type, and the furthest child of a resolved component. *)
(***************************************************************************)
InitResolve ==
    /\ fs \in ResolveInputs(MaxFirst, MaxSecond)
    /\ confFiles = [k \in ConfKeys |-> NoFile]
    /\ confCache = [k \in ConfKeys |-> NoEntry]
    /\ lookupCache = NoTable
    /\ data = NoData
    /\ ret = NoCall
    /\ engine \in Ties
    /\ calls = NoCalls

NextResolve ==
    \/ GetUiComponentsData("div", engine)
    \/ \E c \in 1..(MaxFirst + MaxSecond) : GetFurthestChild(c)

SpecResolve == InitResolve /\ [][NextResolve]_vars

(***************************************************************************)
(* SpecOrder: the order of components that differ in their priority only.  *)
(***************************************************************************)
InitOrder ==
    /\ fs \in OrderInputs(MaxFirst)
    /\ confFiles = [k \in ConfKeys |-> NoFile]
    /\ confCache = [k \in ConfKeys |-> NoEntry]
    /\ lookupCache = NoTable
    /\ data = NoData
    /\ ret = NoCall
    /\ engine \in Ties
    /\ calls = NoCalls

NextOrder == GetUiComponentsData("div", engine)

SpecOrder == InitOrder /\ [][NextOrder]_vars

(***************************************************************************)
(* SpecChain: inheritance resolution step by step; the request that runs   *)
(* getUiComponentsData keeps running.                                      *)
(***************************************************************************)
InitChain ==
    /\ fs \in ChainInputs(MaxFirst)
    /\ confFiles = [k \in ConfKeys |-> NoFile]
    /\ confCache = [k \in ConfKeys |-> NoEntry]
    /\ lookupCache = NoTable
    /\ data = NoData
    /\ ret = NoCall
    /\ engine \in Ties
    /\ calls = NoCalls

NextChain == GetUiComponentsDataStep(1, "div")

SpecChain == InitChain /\ [][NextChain]_vars /\ WF_vars(NextChain)

(***************************************************************************)
(* SpecMerge: inheritance resolution of components whose definitions hold  *)
(* nested mappings.                                                        *)
(***************************************************************************)
InitMerge ==
    /\ fs \in MergeInputs(MaxFirst - 1)
    /\ confFiles = [k \in ConfKeys |-> NoFile]
    /\ confCache = [k \in ConfKeys |-> NoEntry]
    /\ lookupCache = NoTable
    /\ data = NoData
    /\ ret = NoCall
    /\ engine \in Ties
    /\ calls = NoCalls

NextMerge == GetUiComponentsData("div", engine)

SpecMerge == InitMerge /\ [][NextMerge]_vars

(***************************************************************************)
(* SpecFile: the file of a resolved component that overriding components   *)
(* and parents may hold.                                                   *)
(***************************************************************************)
InitFile ==
    /\ fs \in FileInputs(MaxFirst)
    /\ confFiles = [k \in ConfKeys |-> NoFile]
    /\ confCache = [k \in ConfKeys |-> NoEntry]
    /\ lookupCache = NoTable
    /\ data = NoData
    /\ ret = NoCall
    /\ engine \in Ties
    /\ calls = NoCalls

NextFile ==
    \/ GetUiComponentsData("div", engine)
    \/ \E c \in 1..(MaxFirst + 1), relativeFilePath \in RelativeFilePaths :
          GetFileInUiComponent(c, relativeFilePath)

SpecFile == InitFile /\ [][NextFile]_vars

(***************************************************************************)
(* SpecRace: concurrent requests in utils.getLookupTable over an           *)
(* application directory that does not change.                             *)
(***************************************************************************)
InitRace ==
    /\ fs \in RaceInputs
    /\ confFiles = [k \in ConfKeys |-> NoFile]
    /\ confCache = [k \in ConfKeys |-> NoEntry]
    /\ lookupCache = NoTable
    /\ data = NoData
    /\ ret = NoCall
    /\ engine \in Ties
    /\ calls = NoCalls

NextRace ==
    \E r \in Requests, configs \in RaceConfigurations : GetLookupTableStep(r, configs)

SpecRace == InitRace /\ [][NextRace]_vars

(***************************************************************************)
(* SpecConf: the raw configuration cache while the configuration files     *)
(* change.                                                                 *)
(***************************************************************************)
InitConf ==
    /\ fs = Files(EmptyObject, EmptyObject, EmptyObject, EmptyObject)
    /\ confFiles \in [ConfKeys -> ConfFileStates]
    /\ confCache = [k \in ConfKeys |-> NoEntry]
    /\ lookupCache = NoTable
    /\ data = NoData
    /\ ret = NoCall
    /\ engine \in Ties
    /\ calls = NoCalls

NextConf ==
    \/ GetConfigurations
    \/ GetAppConfigurations
    \/ \E key \in ConfKeys : WriteConfFile(key)

SpecConf == InitConf /\ [][NextConf]_vars

(***************************************************************************)
(* SpecFetch: concurrent requests fetching the configurations while the    *)
(* configuration files are modified.                                       *)
(***************************************************************************)
InitFetch ==
    /\ fs = Files(EmptyObject, EmptyObject, EmptyObject, EmptyObject)
    /\ confFiles \in [ConfKeys -> {ConfFile(content, 0) : content \in ConfContents}]
    /\ confCache = [k \in ConfKeys |-> NoEntry]
    /\ lookupCache = NoTable
    /\ data = NoData
    /\ ret = NoCall
    /\ engine = "stable"
    /\ calls = NoCalls

NextFetch ==
    \/ \E r \in Requests, key \in ConfKeys : GetConfigurationsStep(r, key)
    \/ \E key \in ConfKeys : ModifyConfFile(key)

SpecFetch == InitFetch /\ [][NextFetch]_vars

(***************************************************************************)
(* Properties of the lookup-table cache (specification Spec).              *)
(***************************************************************************)
\* the 'caching enabled' flag of the configurations parses to true
FlagParsesTrue(configs) ==
    Get(configs, "cachingEnabled") \in {Bool(TRUE), Str("true"), Str("TRUE")}

\* the call that is ending in this step finds the flag true and a table stored
CacheHit == FlagParsesTrue(ret'.configs) /\ lookupCache.status = "ok"

\* the tables a full rebuild from the present filesystem can give
Rebuilt == {BuildLookupTable(fs, tie) : tie \in Ties}

\* C1: a call of getLookupTable with the flag true and a table stored returns
\* the stored table without rebuilding and leaves the cache alone, whatever
\* the filesystem holds now; every other call rebuilds, and a call that
\* returns then returns the rebuilt table and has stored it in the cache.
C1_CachedOrRebuilt ==
    [][ret'.op = "getLookupTable" =>
         /\ CacheHit =>
               /\ ret'.outcome = "returned"
               /\ ~ret'.built
               /\ ret'.value = lookupCache
               /\ lookupCache' = lookupCache
         /\ (~CacheHit /\ ret'.outcome = "returned") =>
               /\ ret'.built
               /\ ret'.value \in Rebuilt
               /\ lookupCache' = ret'.value]_vars

\* a cache hit has returned a table that a rebuild would no longer give
C1_StaleHit ==
    /\ ret.op = "getLookupTable"
    /\ ret.outcome = "returned"
    /\ ~ret.built
    /\ ret.value = lookupCache
    /\ Rebuilt \cap {ret.value} = {}

\* C2: a call of getLookupTable whose build meets a discovery, resolution or
\* validation error raises the error, returns no table and leaves the
\* cached table exactly as it was before the call.
C2_FailFast ==
    [][(/\ ret'.op = "getLookupTable"
        /\ ~CacheHit
        /\ \E table \in Rebuilt : table.status = "error") =>
         /\ ret'.outcome = "thrown"
         /\ ret'.value \in Rebuilt
         /\ ret'.value.status = "error"
         /\ lookupCache' = lookupCache]_vars

\* a build has failed on a missing parent while a table from an earlier
\* build stays in the cache
C2_FailedWithTableKept ==
    /\ ret.op = "getLookupTable"
    /\ ret.outcome = "thrown"
    /\ ret.value.error = "MissingParentComponent"
    /\ lookupCache.status = "ok"

(***************************************************************************)
(* Properties of the configuration cache (specification SpecConf).         *)
(***************************************************************************)
ConfKeyOf(op) == IF op = "getConfigurations" THEN "uuf" ELSE "app"

\* the number a cached timestamp stands for
TimestampOf(lmd) == CHOOSE n \in 0..9 : lmd = Str(String(n))

\* the entry holds a document at least as recent as the file
CachedIsCurrent(entry, confFile) ==
    /\ entry.conf # undefined
    /\ confFile.lmd <= TimestampOf(entry.lmd)

\* C3: a configuration fetch on a regular file returns the cached document
\* and writes nothing exactly when a document is cached and the file's
\* last-modified timestamp does not exceed the cached one; otherwise it
\* returns the document reloaded from the file, and the cache then holds
\* that document with the file's timestamp.
C3_FetchOrReload ==
    [][(/\ ret'.op \in {"getConfigurations", "getAppConfigurations"}
        /\ ret'.outcome = "returned") =>
         LET key == ConfKeyOf(ret'.op)
             confFile == confFiles[key]
             document == Obj(ParseContent(key, confFile.content))
         IN  IF CachedIsCurrent(confCache[key], confFile)
             THEN /\ ~ret'.reloaded
                  /\ ret'.value = confCache[key].conf
                  /\ confCache' = confCache
             ELSE /\ ret'.reloaded
                  /\ ret'.value = document
                  /\ confCache' = [confCache EXCEPT ![key] =
                         [conf |-> document, lmd |-> Str(String(confFile.lmd))]]]_vars

\* the cached document has been returned for a file whose content has
\* changed under a timestamp that is not newer
C3_CachedReturned ==
    /\ ret.op = "getConfigurations"
    /\ ret.outcome = "returned"
    /\ ~ret.reloaded
    /\ ret.value = confCache["uuf"].conf
    /\ ret.value # Obj(confFiles["uuf"].content)

(***************************************************************************)
(* Properties of the published lookup table (specification SpecTable).     *)
(***************************************************************************)
\* the component objects that the table's maps give for a full name
PageNamed(table, fullName) == table.objects.page[table.pages[fullName]]
DivNamed(table, fullName) == table.objects.div[table.divs[fullName]]

\* C4: in a published lookup table no value of the pages map or of the divs
\* map is a disabled component, and the div router renders no disabled div.
C4_OnlyEnabledPublished ==
    /\ lookupCache.status = "ok" =>
          /\ \A n \in DOMAIN lookupCache.pages : ~PageNamed(lookupCache, n).disabled
          /\ \A n \in DOMAIN lookupCache.divs : ~DivNamed(lookupCache, n).disabled
    /\ (ret.op = "route" /\ ret.response = 200) => ~ret.rendered.disabled

\* C5: in a published lookup table every page named in uriPagesMap and every
\* div named in a pushedDivs list has no children, is enabled and passes
\* validation; so no component with children is registered for a page URI or
\* in the push-URI index.
C5_RegisteredAreLeaves ==
    lookupCache.status = "ok" =>
      /\ \A uri \in DOMAIN lookupCache.uriPagesMap :
            LET page == PageNamed(lookupCache, lookupCache.uriPagesMap[uri])
            IN  /\ Len(page.children) = 0
                /\ ~page.disabled
                /\ validatePageDefinition(page, lookupCache.layouts).success
      /\ \A uriPattern \in DOMAIN lookupCache.pushedDivs :
            \A k \in 1..Len(lookupCache.pushedDivs[uriPattern]) :
              LET div == DivNamed(lookupCache, lookupCache.pushedDivs[uriPattern][k])
              IN  /\ Len(div.children) = 0
                  /\ ~div.disabled
                  /\ validateDivDefinition(div).success

(***************************************************************************)
(* Properties of discovery, inheritance resolution and ordering            *)
(* (specification SpecResolve).  The components are those of data, the     *)
(* outcome of the last getUiComponentsData.                                *)
(***************************************************************************)
Resolved == data.status = "ok"

Components == 1..Len(data.list)

\* the components as discovered, before inheritance resolution
Discovered ==
    Discover(fs.collections, data.type, 1,
             [status |-> "ok", map |-> EmptyObject, list |-> <<>>]).list

\* component i is a direct or transitive child of component j
IsChildOf(i, j) == \E k \in 1..Len(data.list[i].parents) : data.list[i].parents[k] = j

\* the position of a component in the sorted array
PositionOf(i) == CHOOSE k \in 1..Len(data.array) : data.array[k] = i

Compare(i, j) == compareRawUiComponents(data.list[i], data.list[j])

\* C6: after getUiComponentsData the component list holds at most one
\* component per fullName and has as many entries as the by-name map.
C6_OneEntryPerName ==
    Resolved =>
      /\ \A i, j \in Components :
            i # j => data.list[i].fullName # data.list[j].fullName
      /\ Len(data.list) = Cardinality(DOMAIN data.map)

\* C7: for every component and every field whose own definition holds a
\* sequence, the merged definition holds that same sequence.
C7_OwnSequenceKept ==
    Resolved =>
      \A i \in Components : \A field \in DOMAIN Discovered[i].definition :
        Discovered[i].definition[field].t = "array" =>
          data.list[i].definition[field] = Discovered[i].definition[field]

\* C8: of two components with equal, explicitly declared priorities of which
\* one is a child of the other, compareRawUiComponents puts the child first
\* and the child precedes the parent in the sorted array.
C8_ChildBeforeParent ==
    Resolved =>
      \A i, j \in Components :
        (/\ IndexValue(data.list[i]) = IndexValue(data.list[j])
         /\ IndexValue(data.list[i]) # DefaultIndex
         /\ IsChildOf(i, j)) =>
          /\ Compare(i, j) = -1
          /\ Compare(j, i) = 1
          /\ PositionOf(i) < PositionOf(j)

\* C9: compareRawUiComponents is a strict total order over the resolved
\* components: it gives 0 for no two distinct components, it gives opposite
\* answers for (a, b) and (b, a), and it is transitive.
C9_StrictTotalOrder ==
    Resolved =>
      /\ \A i, j \in Components : i # j => Compare(i, j) # 0
      /\ \A i, j \in Components : Compare(i, j) = 0 - Compare(j, i)
      /\ \A i, j, k \in Components :
            (Compare(i, j) < 0 /\ Compare(j, k) < 0) => Compare(i, k) < 0

\* the position (from 0) of component q in the parents of component c, or -1
DistanceOf(c, q) ==
    LET parents == data.list[c].parents
        at == {k \in 1..Len(parents) : parents[k] = q}
    IN  IF at = {} THEN -1 ELSE (CHOOSE k \in at : \A l \in at : k <= l) - 1

\* C10: getFurthestChild returns a component without children as itself;
\* otherwise it returns one of the component's children in whose parents the
\* component is at the greatest position of all the children.  The result
\* has no children, and getFurthestChild of the result is the result.
C10_FurthestChild ==
    (Resolved /\ ret.op = "getFurthestChild") =>
      LET children == data.list[ret.of].children
      IN  /\ Len(children) = 0 => ret.value = ret.of
          /\ Len(children) > 0 =>
                /\ \E k \in 1..Len(children) : children[k] = ret.value
                /\ \A k \in 1..Len(children) :
                      DistanceOf(children[k], ret.of) <= DistanceOf(ret.value, ret.of)
          /\ Len(data.list[ret.value].children) = 0
          /\ getFurthestChild(data.list, ret.value) = ret.value

\* the furthest child of a component with children at different distances
\* has been resolved, and it is not the first of the children
C10_FurthestOfChain ==
    /\ Resolved
    /\ ret.op = "getFurthestChild"
    /\ Len(data.list[ret.of].children) >= 2
    /\ ret.value # data.list[ret.of].children[1]
    /\ DistanceOf(ret.value, ret.of) > DistanceOf(data.list[ret.of].children[1], ret.of)

(***************************************************************************)
(* Properties of the file lookup (specification SpecFile).                 *)
(***************************************************************************)
\* the furthest child of the component followed by that child's parents
SearchOrder(c) ==
    <<getFurthestChild(data.list, c)>> \o data.list[getFurthestChild(data.list, c)].parents

\* the places of the search order whose directory holds a regular file at
\* the path
Holders(c, path) ==
    {k \in 1..Len(SearchOrder(c)) :
        /\ data.list[SearchOrder(c)[k]].path \in DOMAIN fs.files
        /\ path \in DOMAIN fs.files[data.list[SearchOrder(c)[k]].path]
        /\ fs.files[data.list[SearchOrder(c)[k]].path][path] = "file"}

Rooted(path) == IF path = "x.hbs" THEN "/x.hbs" ELSE path

\* C11: getFileInUiComponent returns the regular file of the first component
\* that holds one at the relative path, looking in the furthest child of the
\* given component and then in that child's parents from the nearest on; it
\* returns null exactly when none of them holds such a file.
C11_FirstHolderInSearchOrder ==
    (Resolved /\ ret.op = "getFileInUiComponent") =>
      LET holders == Holders(ret.of, Rooted(ret.relativeFilePath))
      IN  IF holders = {} THEN ret.value = null
          ELSE /\ ret.value # null
               /\ ret.value.relativeFilePath = Rooted(ret.relativeFilePath)
               /\ \E k \in holders :
                     /\ \A l \in holders : k <= l
                     /\ ret.value.path = data.list[SearchOrder(ret.of)[k]].path

\* the file of a parent of the furthest child has been returned for a
\* component that holds a file at the path itself, the path given without
\* its leading slash
C11_ParentFileOverOwn ==
    /\ Resolved
    /\ ret.op = "getFileInUiComponent"
    /\ ret.relativeFilePath = "x.hbs"
    /\ ret.value # null
    /\ SearchOrder(ret.of)[1] # ret.of
    /\ ret.value.path # data.list[SearchOrder(ret.of)[1]].path
    /\ ret.value.path # data.list[ret.of].path
    /\ data.list[ret.of].path \in DOMAIN fs.files
    /\ fs.files[data.list[ret.of].path]["/x.hbs"] = "file"

(***************************************************************************)
(* Properties of page registration (specification SpecTable).  The pages   *)
(* and divs are those resolved from the filesystem the call has read.      *)
(***************************************************************************)
ResolvedPages == getUiComponentsData("page", fs, "stable")
ResolvedDivs == getUiComponentsData("div", fs, "stable")

\* the component is enabled and no component extends it
EnabledLeaf(component) ==
    /\ Get(component.definition, "disabled") \notin
          {Bool(TRUE), Num(1), Str("yes"), Str("true"), Str("TRUE")}
    /\ component.children = <<>>

\* the pages that take part in registration: enabled, not extended, valid
Registrable(layouts) ==
    {i \in 1..Len(ResolvedPages.list) :
        /\ EnabledLeaf(ResolvedPages.list[i])
        /\ validatePageDefinition(ResolvedPages.list[i], layouts).success}

UriOf(i) == Get(ResolvedPages.list[i].definition, "uri")

\* every enabled leaf div and page is valid, so that no build stops on a
\* validation error
NoInvalidLeaf(layouts) ==
    /\ ResolvedDivs.status = "ok"
    /\ \A i \in 1..Len(ResolvedDivs.list) :
          EnabledLeaf(ResolvedDivs.list[i]) =>
            validateDivDefinition(ResolvedDivs.list[i]).success
    /\ \A i \in 1..Len(ResolvedPages.list) :
          EnabledLeaf(ResolvedPages.list[i]) =>
            validatePageDefinition(ResolvedPages.list[i], layouts).success

\* C12 as amended: whenever two enabled, non-overridden, valid pages have
\* the same URI the build fails and returns no table, with the
\* page-URI-collision error when no enabled leaf component is invalid; a
\* returned table maps the URI of every such page to that page, so no two
\* registered pages share a URI.
C12_RegisteredUrisCollide ==
    (ret.op = "getLookupTable" /\ ResolvedPages.status = "ok") =>
      LET layouts == getLayoutsData(fs.layouts)
          sharing == \E i, j \in Registrable(layouts) : i # j /\ UriOf(i) = UriOf(j)
      IN  /\ sharing => ret.outcome = "thrown"
          /\ (sharing /\ NoInvalidLeaf(layouts)) =>
                ret.value.error = "PageUriCollision"
          /\ ret.outcome = "returned" =>
                /\ \A i \in Registrable(layouts) :
                      /\ UriOf(i).s \in DOMAIN ret.value.uriPagesMap
                      /\ ret.value.uriPagesMap[UriOf(i).s] = ResolvedPages.list[i].fullName
                /\ \A i, j \in Registrable(layouts) : i # j => UriOf(i) # UriOf(j)

\* a build has failed on two registrable pages with one URI
C12_CollisionRaised ==
    /\ ret.op = "getLookupTable"
    /\ ret.outcome = "thrown"
    /\ ret.value.error = "PageUriCollision"
    /\ ResolvedPages.status = "ok"
    /\ \E i, j \in Registrable(getLayoutsData(fs.layouts)) :
          i # j /\ UriOf(i) = UriOf(j)

\* C12: whenever two pages have the same URI value in their definitions the
\* build fails with the page-URI-collision error and returns no table.
C12_AnySharedUriCollides ==
    (ret.op = "getLookupTable" /\ ResolvedPages.status = "ok") =>
      ((\E i, j \in 1..Len(ResolvedPages.list) :
            i # j /\ UriOf(i) # undefined /\ UriOf(i) = UriOf(j)) =>
         (ret.outcome = "thrown" /\ ret.value.error = "PageUriCollision"))

(***************************************************************************)
(* Properties of the push-URI index (specification SpecTable).             *)
(***************************************************************************)
\* the divs of a table in the order of the loop over them
DivsInOrder(table) ==
    [k \in 1..Len(table.objects.div) |->
        CHOOSE i \in 1..Len(table.objects.div) : table.objects.div[i].index = k - 1]

\* the patterns of the merged pushedUris of a div
PatternsOf(div) ==
    LET pushedUris == Get(div.definition, "pushedUris")
    IN  IF pushedUris.t = "array"
        THEN {pushedUris.a[n].s : n \in 1..Len(pushedUris.a)}
        ELSE {}

\* the full names, in the order of the loop, of the enabled, non-overridden,
\* valid divs of a table that declare the pattern
PushedFor(table, uriPattern) ==
    LET Declares(i) ==
          /\ EnabledLeaf(table.objects.div[i])
          /\ validateDivDefinition(table.objects.div[i]).success
          /\ uriPattern \in PatternsOf(table.objects.div[i])
        declaring == SelectSeq(DivsInOrder(table), Declares)
    IN  [k \in 1..Len(declaring) |-> table.objects.div[declaring[k]].fullName]

PushedDivsOf(table, uriPattern) ==
    IF uriPattern \in DOMAIN table.pushedDivs THEN table.pushedDivs[uriPattern] ELSE <<>>

\* C13: in a published table pushedDivs of every URI pattern is the list of
\* the full names of the enabled, non-overridden, valid divs that declare
\* the pattern, in the order in which the divs were validated, and holds
\* each such full name exactly once.
C13_PushedOncePerDiv ==
    lookupCache.status = "ok" =>
      \A uriPattern \in {"/a", "/b"} :
        LET pushed == PushedDivsOf(lookupCache, uriPattern)
        IN  /\ {pushed[k] : k \in 1..Len(pushed)} =
                 {PushedFor(lookupCache, uriPattern)[k] :
                    k \in 1..Len(PushedFor(lookupCache, uriPattern))}
            /\ \A k, l \in 1..Len(pushed) : k # l => pushed[k] # pushed[l]
            /\ pushed = PushedFor(lookupCache, uriPattern)

(***************************************************************************)
(* Properties of concurrent rebuilds (specification SpecRace).             *)
(***************************************************************************)
SingleBuild == BuildLookupTable(fs, engine)

C15_EntryOfOneVersion ==
    \A key \in ConfKeys :
        LET entry == confCache[key]
            confFile == confFiles[key]
            document == Obj(ParseContent(key, confFile.content))
        IN  /\ (entry.conf # undefined /\ entry.lmd # undefined
                 /\ TimestampOf(entry.lmd) = confFile.lmd)
                  => entry.conf = document
            /\ (\A r \in Requests : calls[r].pc = "idle")
                  => getConfigurationsOf(key, confFile, entry).value = document

(***************************************************************************)
(* Properties of merged definitions (specification SpecMerge).             *)
(***************************************************************************)
\* the merged value holds the own value at every key path the own value
\* holds one: an own mapping is merged into a mapping that keeps each of
\* its keys, any other own value is kept as it is
RECURSIVE KeepsOwn(_, _)
KeepsOwn(own, merged) ==
    IF own.t = "object"
    THEN /\ merged.t = "object"
         /\ \A k \in DOMAIN own.o :
               k \in DOMAIN merged.o /\ KeepsOwn(own.o[k], merged.o[k])
    ELSE merged = own

\* C16: for every component, the merged definition after inheritance
\* resolution holds the component's own value at every key path, through
\* nested mappings, at which its own definition holds a value, whatever
\* the ancestors hold there.
C16_ChildWinsAtEveryLevel ==
    Resolved =>
      \A i \in Components :
        KeepsOwn(Obj(Discovered[i].definition), Obj(data.list[i].definition))

(***************************************************************************)
(* Properties of the priority order (specification SpecOrder).             *)
(***************************************************************************)
\* the priority a component declares: the number its index field parses to
Priority(i) == parseInt(Get(data.list[i].definition, UI_COMPONENT_DEFINITION_INDEX))

Declares(i) == ~Priority(i).nan

\* C17: of two components that declare different numeric priorities the
\* one with the lower value comes first, and a component whose priority is
\* absent or does not parse comes after every component that declares a
\* numeric priority, whatever its value; both for compareRawUiComponents
\* and in the sorted array.
C17_SentinelAfterExplicit ==
    Resolved =>
      \A i, j \in Components :
        (/\ Declares(i)
         /\ \/ Declares(j) /\ Priority(i).n < Priority(j).n
            \/ ~Declares(j))
          => Compare(i, j) = -1 /\ PositionOf(i) < PositionOf(j)

(***************************************************************************)
(* Properties of the parent walks (specification SpecChain).               *)
(***************************************************************************)
\* the divs as discovered
Found ==
    Discover(fs.collections, "div", 1,
             [status |-> "ok", map |-> EmptyObject, list |-> <<>>])

ExtendsOf(i) == Get(Found.list[i].definition, UI_COMPONENT_DEFINITION_EXTENDS)

\* the parent reference names a discovered component
Exists(name) == name.t = "string" /\ Truthy(name) /\ name.s \in DOMAIN Found.map

\* the components reached from those of S by parent references
RECURSIVE Ancestors(_)
Ancestors(S) ==
    LET T == S \cup {Found.map[ExtendsOf(j).s] : j \in {k \in S : Exists(ExtendsOf(k))}}
    IN  IF T = S THEN S ELSE Ancestors(T)

ChainOf(i) ==
    IF Exists(ExtendsOf(i)) THEN Ancestors({Found.map[ExtendsOf(i).s]}) ELSE {}

OnCycle(j) == j \in ChainOf(j)

\* the chain of component i reaches a cycle of existing components
ReachesCycle(i) == \E j \in ChainOf(i) : OnCycle(j)

\* the chain of component i reaches a reference to a component that does
\* not exist
MissesParent(i) ==
    \E j \in {i} \cup ChainOf(i) : Truthy(ExtendsOf(j)) /\ ~Exists(ExtendsOf(j))

Acyclic == \A i \in 1..Len(Found.list) : ~ReachesCycle(i)

\* a chain reaches a cycle and no component before it in the list misses a
\* parent
Stuck ==
    \E i \in 1..Len(Found.list) :
        ReachesCycle(i) /\ \A j \in 1..(i - 1) : ~MissesParent(j)

Running == calls[1].pc # "idle"

\* C18: unless a chain reaches a cycle of existing components before any
\* component listed earlier misses a parent, every build that starts ends:
\* it returns the components when no chain misses a parent and throws the
\* missing-parent error otherwise.  In that case the walk of the component
\* never leaves its while loop, no build ever ends, and nothing is
\* returned or published.
C18_EndsUnlessStuck ==
    /\ (Running /\ ~Stuck) ~> ~Running
    /\ [](Stuck => data = NoData)
    /\ [](data # NoData =>
            (data.status = "ok" <=> \A i \in 1..Len(Found.list) : ~MissesParent(i)))
    /\ [][(calls[1].pc = "while" /\ ReachesCycle(calls[1].i))
            => (calls'[1].pc = "while" /\ calls'[1].i = calls[1].i)]_vars

\* the walk of a component whose chain is a cycle has gone around it more
\* than once
C18_WalkAroundCycle ==
    /\ calls[1].pc = "while"
    /\ ReachesCycle(calls[1].i)
    /\ Len(calls[1].st.list[calls[1].i].parents) > Len(Found.list)

\* C18 as stated: with an acyclic graph every build ends, and with a chain
\* that reaches a cycle no build ever ends.
C18_CycleNeverEnds ==
    /\ (Running /\ Acyclic) ~> ~Running
    /\ [](~Acyclic => data = NoData)

====
